---------------------------- MODULE Spec2Model ----------------------------
(***************************************************************************)
(* A model of src/zfinder.py: the zero-fill of the uncertainty spectrum    *)
(* (average_zeroes), the coordinate sampler                                *)
(* (RedshiftFinder.spaced_circle_points) and the redshift grid search      *)
(* (RedshiftFinder.zfind).                                                 *)
(*                                                                         *)
(* Numbers.  The program computes in floating point; the model computes    *)
(* exactly, in integers:                                                   *)
(*   - an uncertainty is an integer multiple of 1/Unit(len), so that the   *)
(*     halvings of average_zeroes are exact;                               *)
(*   - a chi-squared is an integer multiple of 5, so that the penalty      *)
(*     factor 1.2 = 6/5 is exact, and 1.05 = 105/100 is compared by cross  *)
(*     multiplication;                                                     *)
(*   - a sampled point lies on the integer lattice: the random direction   *)
(*     is one of the four axis directions and the random radius an         *)
(*     integer of [0, R).                                                  *)
(*   - a frequency, a peak location and a width are fractions            *)
(*     <<numerator, denominator>>; a term a*exp(-t^2) of gaussf is kept as *)
(*     its amplitude a and its argument t, the exponential not evaluated.  *)
(* The external collaborators (aperture photometry, the line finder, the   *)
(* least-squares fit) are inputs of the actions, drawn from small sets.    *)
(***************************************************************************)
EXTENDS Integers, Sequences, FiniteSets

VARIABLES
    pc,                     \* where the program is
    caller,                 \* who called spaced_circle_points: "zfind" or "direct"
    error,                  \* the exception that ended the call, "none" if none
    calls,                  \* number of zfind calls made on the object
    \* ---- spaced_circle_points: arguments and locals
    num_points, circle_radius, centre_coords, minimum_spread_distance,
    points,                 \* the list being built
    remaining,              \* iterations of the for loop still to run
    xy,                     \* the candidate [x, y] drawn last
    \* ---- RedshiftFinder object
    self,                   \* num_plots, circle_radius, minimum_point_distance, centre
    coordinates, z, num_gaussians,
    all_chi2, all_flux, all_params, all_snrs, all_scales, all_lowest_z, plot_colours,
    \* ---- zfind: arguments and locals
    args,                   \* <<ftransition, z_start, dz, z_end>>
    index,                  \* position in coordinates (1-based)
    k,                      \* position in self.z of the next candidate (1-based)
    chi2_array, param_array,
    y_flux, uncert_in, uncert, spec_peaks,
    fit_ok,                 \* did the last curve_fit converge
    chi2_fit,               \* chi2 of line 436, before the penalty
    chi2,                   \* chi2 as appended
    exp_peak, peak_distance,
    target_chi2,            \* <<>> while unbound, <<value>> once set
    returned,               \* the value zfind returned last
    gauss                   \* <<>>, or <<the evaluation of gaussf the fit made last>>

sampler_vars == <<num_points, circle_radius, centre_coords, minimum_spread_distance,
                  points, remaining, xy>>
object_vars == <<self, coordinates, z, num_gaussians, all_chi2, all_flux, all_params,
                 all_snrs, all_scales, all_lowest_z, plot_colours>>
point_vars == <<y_flux, uncert_in, uncert, spec_peaks>>
scan_vars == <<k, chi2_array, param_array, fit_ok, chi2_fit, chi2, exp_peak, peak_distance>>
zfind_vars == <<args, index, target_chi2, returned, gauss>>
vars == <<pc, caller, error, calls, sampler_vars, object_vars, point_vars, scan_vars,
          zfind_vars>>

---------------------------------------------------------------------------
(* Bounds *)

MaxLen == 4             \* longest sequence given to average_zeroes on its own
NumChannels == 6        \* frequency channels of the cube
MaxPoints == 3          \* largest num_points given to spaced_circle_points on its own
MaxRadius == 3          \* largest circle_radius given to spaced_circle_points on its own
MaxDist == 2            \* largest minimum_spread_distance
MaxPlots == 2           \* largest num_plots of a RedshiftFinder in a run of several points

---------------------------------------------------------------------------
(* Sequences of numbers *)

RECURSIVE Pow2(_)
Pow2(n) == IF n <= 0 THEN 1 ELSE 2 * Pow2(n - 1)

Abs(n) == IF n < 0 THEN -n ELSE n

\* Python's min(list) and max(list) of a non-empty list
min(s) == CHOOSE v \in {s[i] : i \in 1..Len(s)} : \A i \in 1..Len(s) : v <= s[i]
last_recorded(s) == s[Len(s)]
max(s) == CHOOSE v \in {s[i] : i \in 1..Len(s)} : \A i \in 1..Len(s) : v >= s[i]

RECURSIVE sum(_)
sum(s) == IF s = <<>> THEN 0 ELSE s[1] + sum(Tail(s))

\* the members of a set of integers, ascending (np.sort)
RECURSIVE sort(_)
sort(S) == IF S = {} THEN <<>>
           ELSE LET lo == CHOOSE v \in S : \A w \in S : v <= w
                IN  <<lo>> \o sort(S \ {lo})

---------------------------------------------------------------------------
(* average_zeroes, lines 20-26 *)

\* the unit of an uncertainty of a sequence of length len: len halvings stay exact
Unit(len) == Pow2(len)

\* The loop of average_zeroes from position i (1-based) on.  data[i-1] of the first
\* position is Python's data[-1], the last element; data[i+1] of the last position
\* is out of range and raises IndexError, with data as modified so far.
RECURSIVE average_zeroes_from(_, _)
average_zeroes_from(data, i) ==
    IF i > Len(data) THEN [data |-> data, raised |-> FALSE]
    ELSE IF data[i] # 0 THEN average_zeroes_from(data, i + 1)
    ELSE IF i = Len(data) THEN [data |-> data, raised |-> TRUE]
    ELSE LET left == IF i = 1 THEN data[Len(data)] ELSE data[i - 1]
         IN  average_zeroes_from([data EXCEPT ![i] = (left + data[i + 1]) \div 2], i + 1)

\* a zero-fill that takes both neighbours from the input
average_zeroes_of_input(data) ==
    IF Len(data) > 0 /\ data[Len(data)] = 0
    THEN [data |-> data, raised |-> TRUE]
    ELSE [data |-> [i \in 1..Len(data) |->
                      IF data[i] # 0 THEN data[i]
                      ELSE (data[IF i = 1 THEN Len(data) ELSE i - 1] + data[i + 1]) \div 2],
          raised |-> FALSE]

\* a zero-fill that fills only where both neighbours are non-zero
average_zeroes_skipping(data) ==
    IF Len(data) > 0 /\ data[Len(data)] = 0
    THEN [data |-> data, raised |-> TRUE]
    ELSE [data |-> [i \in 1..Len(data) |->
                      IF data[i] # 0 THEN data[i]
                      ELSE LET l == data[IF i = 1 THEN Len(data) ELSE i - 1]
                               r == data[i + 1]
                           IN  IF l # 0 /\ r # 0 THEN (l + r) \div 2 ELSE 0],
          raised |-> FALSE]

\* a zero-fill whose first position has no left neighbour
average_zeroes_no_wrap(data) ==
    IF Len(data) >= 2 /\ data[1] = 0
    THEN average_zeroes_from([data EXCEPT ![1] = data[2] \div 2], 2)
    ELSE average_zeroes_from(data, 1)

average_zeroes(data) == average_zeroes_from(data, 1)


---------------------------------------------------------------------------
(* RedshiftFinder.spaced_circle_points, lines 216-264 *)

\* (cos theta, sin theta) of the directions 2*pi*random() the model draws
Directions == {<<1, 0>>, <<0, 1>>, <<-1, 0>>, <<0, -1>>}

\* the radii circle_radius*random() the model draws: random() is in [0, 1)
Radii(R) == IF R > 0 THEN 0..(R - 1) ELSE {0}

\* the centres the sampler is given on its own
Centres == {<<0, 0>>, <<3, 4>>}

\* line 241: points = [centre_coords]
no_points(centre) == <<>>
initial_points(centre) == <<centre>>

\* line 244: the iterations of range(num_points-1)
loop_count(n) == IF n - 1 > 0 THEN n - 1 ELSE 0

\* lines 252-253: the candidate in cartesian coordinates
cartesian(r, dir, centre) == <<r * dir[1] + centre[1], r * dir[2] + centre[2]>>

sq_dist(p, q) == (p[1] - q[1]) * (p[1] - q[1]) + (p[2] - q[2]) * (p[2] - q[2])

\* lines 256-260: min(cdist(candidate, points)) >= minimum_spread_distance, or only
\* one point placed so far.  Distances are compared by their squares (D >= 0).
accepted(cand, pts, D) ==
    \/ \A i \in 1..Len(pts) : sq_dist(cand, pts[i]) >= D * D
    \/ Len(pts) = 1

\* lines 247-262: one pass of the while loop, for the direction and radius drawn
spaced_circle_points_draw(dir, r) ==
    /\ pc = "sampling"
    /\ remaining > 0
    /\ LET cand == cartesian(r, dir, centre_coords)
       IN  /\ xy' = cand
           /\ IF accepted(cand, points, minimum_spread_distance)
              THEN /\ points' = Append(points, cand)
                   /\ remaining' = remaining - 1
              ELSE UNCHANGED <<points, remaining>>
    /\ UNCHANGED <<pc, caller, error, calls, num_points, circle_radius, centre_coords,
                   minimum_spread_distance, object_vars, point_vars, scan_vars, zfind_vars>>

\* line 264: return points
spaced_circle_points_return ==
    /\ pc = "sampling"
    /\ remaining <= 0
    /\ pc' = IF caller = "zfind" THEN "setup" ELSE "sampled"
    /\ UNCHANGED <<caller, error, calls, sampler_vars, object_vars, point_vars, scan_vars,
                   zfind_vars>>

---------------------------------------------------------------------------
(* RedshiftFinder.gaussf, lines 266-299 *)

\* line 298: the argument t = (x - i*x0)/s of the exponential, for the fractions
\* x, x0 and s = <<numerator, denominator>>, as a fraction
lobe(x, i, s, x0) ==
    <<(x[1] * x0[2] - i * x0[1] * x[2]) * s[2], x[2] * x0[2] * s[1]>>

\* line 298: one term a * np.exp(-t**2).  The model keeps the amplitude and the
\* argument: the value of the term is a*e^(-(t[1]/t[2])^2), which is 0 when a = 0.
term(a, t) == [a |-> a, t |-> t]

\* line 297: range(1, n)
range_through(n) == 1..n
range_from_one(n) == 1..(n - 1)

\* lines 296-299 for an array x: y = 0, then one term for every i of range(1, n),
\* added to each entry of the array.  When range(1, n) is empty nothing is added and
\* the int 0 itself is returned (ndim 0, one entry without a term), not an array.
gaussf(x, a, s, x0, n) ==
    IF range_from_one(n) = {}
    THEN [ndim |-> 0, y |-> <<<<>>>>]
    ELSE [ndim |-> 1,
          y |-> [c \in 1..Len(x) |->
                    [j \in 1..Cardinality(range_from_one(n)) |->
                        term(a, lobe(x[c], sort(range_from_one(n))[j], s, x0))]]]

---------------------------------------------------------------------------
(* RedshiftFinder.zfind, lines 347-489 *)

\* Redshifts are integers in units of 1/2: z = 3 stands for the redshift 1.5.
\* np.arange(start, stop, step) for step > 0: ceil((stop - start)/step) values.
arange(start, stop, step) ==
    LET n == IF stop > start THEN (stop - start + step - 1) \div step ELSE 0
    IN  [i \in 1..n |-> start + (i - 1) * step]

\* Python's round() of h/2: to the nearest integer, a half to the even neighbour
round_half(h) ==
    LET q == h \div 2
    IN  IF h % 2 = 0 THEN q ELSE IF q % 2 = 0 THEN q ELSE q + 1

\* line 424: loc = ftransition/(1+ddz) as the fraction <<numerator, denominator>>
location(ftransition, ddz) == <<2 * ftransition, 2 + ddz>>

\* line 407: the spectrum aperture photometry measures at a point.  The model keeps
\* which point of which call it was measured at, not the flux values.
fits_flux(call, point) == [call |-> call, point |-> point]

Channels == 0..(NumChannels - 1)

\* lines 435, 440-443: the channels of the num largest values of f_exp, ascending.
\* np.argsort leaves the order of equal values open: any choice of them is possible.
expected_peaks(f_exp, num) ==
    IF num = 0 THEN {<<>>}
    ELSE LET m == IF num < Len(f_exp) THEN num ELSE Len(f_exp)
         IN  {sort(S) : S \in {T \in SUBSET (0..(Len(f_exp) - 1)) :
                  /\ Cardinality(T) = m
                  /\ \A i \in T : \A j \in (0..(Len(f_exp) - 1)) \ T :
                        f_exp[j + 1] <= f_exp[i + 1]}}

\* lines 446-449: zip pairs the two lists up to the shorter one
total_peak_distance(peaks, expected) ==
    LET n == IF Len(peaks) < Len(expected) THEN Len(peaks) ELSE Len(expected)
    IN  sum([i \in 1..n |-> Abs(peaks[i] - expected[i])])

\* line 453
penalty_at_least(distance, num) == distance >= num * 3 \/ num < 2
penalty(distance, num) == distance > num * 3 \/ num < 2

\* line 454: chi2 *= 1.2, exact on the multiples of 5
penalise(c) == (c * 6) \div 5

\* lines 461-470: the colour of a point that is not the first
colour_strict(m, target) ==
    IF m <= target THEN "red"
    ELSE IF m > target /\ 100 * m < 105 * target THEN "gold"
    ELSE "green"
colour(m, target) ==
    IF m <= target THEN "red"
    ELSE IF m > target /\ 100 * m <= 105 * target THEN "gold"
    ELSE "green"

\* line 473: np.argmin, the first position of the minimum (1-based)
argmin_last(s) == CHOOSE i \in 1..Len(s) :
    /\ \A j \in 1..Len(s) : s[i] <= s[j]
    /\ \A j \in (i + 1)..Len(s) : s[j] # s[i]
argmin(s) == CHOOSE i \in 1..Len(s) :
    /\ \A j \in 1..Len(s) : s[i] <= s[j]
    /\ \A j \in 1..(i - 1) : s[j] # s[i]

\* lines 375-383: the call, up to the first statement of spaced_circle_points
zfind(a, maxcalls) ==
    /\ pc \in {"idle", "returned", "raised"}
    /\ calls < maxcalls
    /\ calls' = calls + 1
    /\ args' = a
    /\ error' = "none"
    /\ caller' = "zfind"
    /\ num_points' = self.num_plots
    /\ circle_radius' = self.circle_radius
    /\ centre_coords' = self.centre
    /\ minimum_spread_distance' = self.minimum_point_distance
    /\ points' = initial_points(self.centre)
    /\ remaining' = loop_count(self.num_plots)
    /\ xy' = <<>>
    /\ pc' = "sampling"
    \* the locals of an earlier call are gone
    /\ index' = 0
    /\ target_chi2' = <<>>
    /\ k' = 0
    /\ chi2_array' = <<>>
    /\ param_array' = <<>>
    /\ fit_ok' = FALSE
    /\ chi2_fit' = 0
    /\ chi2' = 0
    /\ exp_peak' = <<>>
    /\ peak_distance' = 0
    /\ y_flux' = <<>>
    /\ uncert_in' = <<>>
    /\ uncert' = <<>>
    /\ spec_peaks' = <<>>
    /\ gauss' = <<>>
    /\ UNCHANGED <<object_vars, returned>>

\* lines 382-397: the coordinates, the redshift grid and the number of gaussians
zfind_setup ==
    /\ pc = "setup"
    /\ coordinates' = points
    /\ z' = arange(args[2], args[4] + args[3], args[3])
    /\ num_gaussians' = round_half(args[4] - args[2])
    /\ index' = 1
    /\ pc' = "point"
    /\ UNCHANGED <<caller, error, calls, sampler_vars, self, all_chi2, all_flux, all_params,
                   all_snrs, all_scales, all_lowest_z, plot_colours, point_vars, scan_vars,
                   args, target_chi2, returned, gauss>>

\* lines 400-420: flux and uncertainty at the point, the zero-fill, the detected
\* peaks.  u is the uncertainty sequence photometry returns, found the set of
\* channels the line finder reports.
zfind_point(u, found) ==
    /\ pc = "point"
    /\ y_flux' = fits_flux(calls, index)
    /\ uncert_in' = u
    /\ LET filled == average_zeroes(u)
       IN  IF filled.raised
           THEN /\ uncert' = filled.data
                /\ error' = "IndexError"
                /\ pc' = "raised"
                \* lines 403-404 have run before the photometry
                /\ chi2_array' = <<>>
                /\ param_array' = <<>>
                /\ UNCHANGED <<spec_peaks, k, fit_ok, chi2_fit, chi2, exp_peak,
                               peak_distance>>
           ELSE /\ uncert' = [i \in 1..Len(u) |-> 1000 * filled.data[i]]
                /\ spec_peaks' = sort(found)
                /\ chi2_array' = <<>>
                /\ param_array' = <<>>
                /\ k' = 1
                /\ pc' = "scan"
                /\ UNCHANGED <<error, fit_ok, chi2_fit, chi2, exp_peak, peak_distance>>
    /\ UNCHANGED <<caller, calls, sampler_vars, object_vars, zfind_vars>>

\* lines 435, 440: the fitted template as np.argsort receives it.  For an empty
\* range(1, n) gaussf returns the int 0, which np.argsort takes as one entry.
fitted_template(f_exp, n) == IF range_from_one(n) = {} THEN <<0>> ELSE f_exp

\* lines 423-458: one candidate of the grid.  converged: curve_fit returned;
\* fitted_chi2: the chi2 of line 436; f_exp: the fitted template per channel.
zfind_candidate(converged, fitted_chi2, f_exp) ==
    /\ pc = "scan"
    /\ k <= Len(z)
    /\ fit_ok' = converged
    /\ IF ~converged
       THEN IF chi2_array = <<>>
            THEN \* max() of an empty list
                 /\ error' = "ValueError"
                 /\ pc' = "raised"
                 /\ UNCHANGED <<k, chi2_array, param_array, chi2_fit, chi2, exp_peak,
                                peak_distance>>
            ELSE /\ chi2_array' = Append(chi2_array, max(chi2_array))
                 /\ k' = k + 1
                 /\ UNCHANGED <<pc, error, param_array, chi2_fit, chi2, exp_peak,
                                peak_distance>>
       ELSE \E expected \in expected_peaks(fitted_template(f_exp, num_gaussians),
                                            Len(spec_peaks)) :
               LET distance == total_peak_distance(spec_peaks, expected)
                   value == IF penalty(distance, Len(spec_peaks))
                            THEN penalise(fitted_chi2) ELSE fitted_chi2
               IN  /\ chi2_fit' = fitted_chi2
                   /\ exp_peak' = expected
                   /\ peak_distance' = distance
                   /\ chi2' = value
                   /\ chi2_array' = Append(chi2_array, value)
                   /\ param_array' = Append(param_array, [x0 |-> location(args[1], z[k])])
                   /\ k' = k + 1
                   /\ UNCHANGED <<pc, error>>
    /\ UNCHANGED <<caller, calls, sampler_vars, object_vars, point_vars, zfind_vars>>

\* lines 460-484: the colour, the best redshift, the appends
zfind_point_done ==
    /\ pc = "scan"
    /\ k > Len(z)
    /\ IF chi2_array = <<>>
       THEN \* min() of an empty list: the grid was empty
            /\ error' = "ValueError"
            /\ pc' = "raised"
            /\ UNCHANGED <<object_vars, index, target_chi2>>
       ELSE LET min_plot_chi2 == min(chi2_array)
                lowest_index == argmin(chi2_array)
            IN  /\ plot_colours' = Append(plot_colours,
                       IF index = 1 THEN "black" ELSE colour(min_plot_chi2, target_chi2[1]))
                /\ target_chi2' = IF index = 1 THEN <<min_plot_chi2>> ELSE target_chi2
                /\ all_flux' = Append(all_flux, y_flux)
                /\ all_chi2' = Append(all_chi2, chi2_array)
                /\ all_params' = Append(all_params, param_array)
                /\ all_snrs' = Append(all_snrs, [i \in 1..Len(spec_peaks) |-> "snr"])
                /\ all_scales' = Append(all_scales, [i \in 1..Len(spec_peaks) |-> "scale"])
                /\ all_lowest_z' = Append(all_lowest_z, z[lowest_index])
                /\ index' = index + 1
                /\ pc' = IF index + 1 > Len(coordinates) THEN "finished" ELSE "point"
                /\ UNCHANGED <<error, self, coordinates, z, num_gaussians>>
    /\ UNCHANGED <<caller, calls, sampler_vars, point_vars, scan_vars, args, returned,
                   gauss>>

\* lines 487-489: return self.all_lowest_z
zfind_return ==
    /\ pc = "finished"
    /\ returned' = all_lowest_z
    /\ pc' = "returned"
    /\ UNCHANGED <<caller, error, calls, sampler_vars, object_vars, point_vars, scan_vars,
                   args, index, target_chi2, gauss>>

\* lines 386-388: the header of the cube, in GHz
hdr == [CRVAL3 |-> 23, CDELT3 |-> 23]

\* np.linspace(start, stop, num), both ends included, as fractions
linspace(start, stop, num) ==
    IF num = 1 THEN <<<<start, 1>>>>
    ELSE [c \in 1..num |-> <<start * (num - 1) + (c - 1) * (stop - start), num - 1>>]

\* lines 387-391: the frequency axis; freq_end lies one increment past the last
\* channel, so that the axis is stretched by freq_len/(freq_len - 1)
x_axis_flux ==
    LET freq_start == hdr.CRVAL3
        freq_incr == hdr.CDELT3
        freq_len == NumChannels
        freq_end == freq_start + freq_len * freq_incr
    IN  linspace(freq_start, freq_end, freq_len)

\* line 428: one evaluation of the template by curve_fit while it fits the current
\* candidate, at the amplitude a and the width s it tries
zfind_gaussf(a, s) ==
    /\ pc = "scan"
    /\ k <= Len(z)
    /\ LET loc == location(args[1], z[k])
           f == gaussf(x_axis_flux, a, s, loc, num_gaussians)
       IN  gauss' = <<[point |-> index, candidate |-> k, a |-> a, s |-> s, x0 |-> loc,
                       n |-> num_gaussians, ndim |-> f.ndim, y |-> f.y]>>
    /\ UNCHANGED <<pc, caller, error, calls, sampler_vars, object_vars, point_vars,
                   scan_vars, args, index, target_chi2, returned>>

\* average_zeroes called on its own
average_zeroes_call ==
    /\ pc = "average_zeroes"
    /\ LET filled == average_zeroes(uncert)
       IN  /\ uncert' = filled.data
           /\ error' = IF filled.raised THEN "IndexError" ELSE "none"
           /\ pc' = IF filled.raised THEN "raised" ELSE "filled"
    /\ UNCHANGED <<caller, calls, sampler_vars, object_vars, y_flux, uncert_in, spec_peaks,
                   scan_vars, zfind_vars>>

---------------------------------------------------------------------------
(* Inputs *)

MaxPeaks == 2           \* most peaks the line finder reports

\* <<ftransition, z_start, dz, z_end>>, redshifts in units of 1/2:
\* z = 0, 1, 2;  z from 0 to 3 by steps of 2;  z from 0 to 0.5 by steps of 0.5
ZArgs == {<<115, 0, 2, 4>>, <<115, 0, 4, 6>>, <<115, 0, 1, 1>>}

\* a grid of one candidate, for the runs of several points and calls
ZArgsRun == {<<115, 0, 1, 0>>}

\* the chi2 of line 436
Chi2Values == {100, 105}
Chi2ValuesRun == {500, 525, 530}

\* the uncertainty spectra photometry returns: no zero, an isolated zero, a run of
\* zeros, zeros from the first channel on, a zero in the last channel
ZeroPatterns == {{}, {2}, {2, 3}, {1, 2}, {NumChannels}}
UncertInputs == {[i \in 1..NumChannels |-> IF i \in Z THEN 0 ELSE Unit(NumChannels)] :
                    Z \in ZeroPatterns}

UncertNoZero == [i \in 1..NumChannels |-> Unit(NumChannels)]

\* the channels the line finder reports
PeakInputs == SUBSET (0..(MaxPeaks - 1))

\* the fitted templates: flat (amplitude 0), or MaxPeaks lobes
FExpInputs == {[c \in 1..NumChannels |-> IF (c - 1) \in P THEN 1 ELSE 0] :
                  P \in {Q \in SUBSET Channels : Cardinality(Q) \in {0, MaxPeaks}}}
FExpFlat == [c \in 1..NumChannels |-> 0]

\* the amplitudes and widths the fit tries: line 429 bounds the amplitude by
\* [0, max(y_flux)] and the width by [1/8, 2/3]
Amplitudes == {0, 2}
Widths == {<<1, 8>>, <<2, 3>>}

\* the sequences given to average_zeroes on its own
AZInputs == UNION {[1..n -> {0, Unit(MaxLen), 2 * Unit(MaxLen)}] : n \in 0..MaxLen}

---------------------------------------------------------------------------
(* Specifications *)

\* no call of spaced_circle_points yet
sampler_idle ==
    /\ num_points = 0
    /\ circle_radius = 0
    /\ centre_coords = <<0, 0>>
    /\ minimum_spread_distance = 0
    /\ points = <<>>
    /\ remaining = 0
    /\ xy = <<>>

\* lines 107-125: the object after __init__(num_plots=n); the image gives the circle
\* radius and the centre, minimum_point_distance is left at its default
constructed(n) ==
    /\ self = [num_plots |-> n, circle_radius |-> 2, minimum_point_distance |-> 1,
               centre |-> <<0, 0>>]
    /\ coordinates = <<>>
    /\ z = <<>>
    /\ num_gaussians = 0
    /\ all_chi2 = <<>>
    /\ all_flux = <<>>
    /\ all_params = <<>>
    /\ all_snrs = <<>>
    /\ all_scales = <<>>
    /\ all_lowest_z = <<>>
    /\ plot_colours = <<>>

\* no call of zfind yet
zfind_idle ==
    /\ calls = 0
    /\ args = <<>>
    /\ index = 0
    /\ target_chi2 = <<>>
    /\ returned = <<>>
    /\ gauss = <<>>
    /\ k = 0
    /\ chi2_array = <<>>
    /\ param_array = <<>>
    /\ fit_ok = FALSE
    /\ chi2_fit = 0
    /\ chi2 = 0
    /\ exp_peak = <<>>
    /\ peak_distance = 0
    /\ y_flux = <<>>
    /\ spec_peaks = <<>>

\* One RedshiftFinder of one point, one call of zfind, every input of the scan.
Init ==
    /\ pc = "idle"
    /\ caller = "zfind"
    /\ error = "none"
    /\ sampler_idle
    /\ constructed(1)
    /\ zfind_idle
    /\ uncert_in = <<>>
    /\ uncert = <<>>

\* With num_plots = 1 the loop of spaced_circle_points has no iteration.
Next ==
    \/ \E a \in ZArgs : zfind(a, 1)
    \/ spaced_circle_points_return
    \/ zfind_setup
    \/ \E u \in UncertInputs : \E found \in PeakInputs : zfind_point(u, found)
    \/ \E converged \in BOOLEAN : \E c \in Chi2Values : \E f \in FExpInputs :
          zfind_candidate(converged, c, f)
    \/ zfind_point_done
    \/ zfind_return

Spec == Init /\ [][Next]_vars

\* RedshiftFinders of up to MaxPlots points, zfind called once and then once more on
\* each, a grid of one candidate, no zero uncertainty and no detected peak.
InitRun ==
    /\ pc = "idle"
    /\ caller = "zfind"
    /\ error = "none"
    /\ sampler_idle
    /\ \E n \in 1..MaxPlots : constructed(n)
    /\ zfind_idle
    /\ uncert_in = <<>>
    /\ uncert = <<>>

NextRun ==
    \/ \E a \in ZArgsRun : zfind(a, 2)
    \/ \E dir \in Directions : \E r \in Radii(circle_radius) : spaced_circle_points_draw(dir, r)
    \/ spaced_circle_points_return
    \/ zfind_setup
    \/ zfind_point(UncertNoZero, {})
    \/ \E converged \in BOOLEAN : \E c \in Chi2ValuesRun : zfind_candidate(converged, c, FExpFlat)
    \/ zfind_point_done
    \/ zfind_return

SpecRun == InitRun /\ [][NextRun]_vars

\* spaced_circle_points called on its own
InitSample ==
    /\ pc = "sampling"
    /\ caller = "direct"
    /\ error = "none"
    /\ num_points \in 0..MaxPoints
    /\ circle_radius \in 0..MaxRadius
    /\ centre_coords \in Centres
    /\ minimum_spread_distance \in 0..MaxDist
    /\ points = initial_points(centre_coords)
    /\ remaining = loop_count(num_points)
    /\ xy = <<>>
    /\ constructed(1)
    /\ zfind_idle
    /\ uncert_in = <<>>
    /\ uncert = <<>>

NextSample ==
    \/ \E dir \in Directions : \E r \in Radii(circle_radius) : spaced_circle_points_draw(dir, r)
    \/ spaced_circle_points_return

SpecSample == InitSample /\ [][NextSample]_vars

\* average_zeroes called on its own
InitAZ ==
    /\ pc = "average_zeroes"
    /\ caller = "direct"
    /\ error = "none"
    /\ sampler_idle
    /\ constructed(1)
    /\ zfind_idle
    /\ uncert_in \in AZInputs
    /\ uncert = uncert_in

NextAZ == average_zeroes_call

SpecAZ == InitAZ /\ [][NextAZ]_vars

\* One RedshiftFinder of one point, one call of zfind, a grid of one candidate, every
\* uncertainty spectrum over three values.
UncertInputsAll == [1..NumChannels -> {0, Unit(NumChannels), 2 * Unit(NumChannels)}]

NextFill ==
    \/ \E a \in ZArgsRun : zfind(a, 1)
    \/ spaced_circle_points_return
    \/ zfind_setup
    \/ \E u \in UncertInputsAll : zfind_point(u, {})
    \/ \E converged \in BOOLEAN : \E c \in Chi2Values : zfind_candidate(converged, c, FExpFlat)
    \/ zfind_point_done
    \/ zfind_return

SpecFill == Init /\ [][NextFill]_vars

\* RedshiftFinders of up to MaxPlots points, one call of zfind on every grid, the
\* evaluations of the template the fit makes at every candidate.
NextGauss ==
    \/ \E a \in ZArgs : zfind(a, 1)
    \/ \E dir \in Directions : \E r \in Radii(circle_radius) : spaced_circle_points_draw(dir, r)
    \/ spaced_circle_points_return
    \/ zfind_setup
    \/ zfind_point(UncertNoZero, {})
    \/ \E a \in Amplitudes : \E s \in Widths : zfind_gaussf(a, s)
    \/ \E converged \in BOOLEAN : zfind_candidate(converged, 100, FExpFlat)
    \/ zfind_point_done
    \/ zfind_return

SpecGauss == InitRun /\ [][NextGauss]_vars

---------------------------------------------------------------------------
(* Claims *)

\* C1 (Spec): the best redshift recorded for a point is the grid value at the first
\* position where the point's chi-squared sequence takes its minimum.
C1_BestRedshiftAtFirstMinimum ==
    \A i \in 1..Len(all_lowest_z) :
        \E p \in 1..Len(all_chi2[i]) :
            /\ all_lowest_z[i] = z[p]
            /\ \A j \in 1..Len(all_chi2[i]) : all_chi2[i][p] <= all_chi2[i][j]
            /\ \A j \in 1..(p - 1) : all_chi2[i][j] > all_chi2[i][p]

\* a recorded point whose minimum is taken twice, first at the second candidate
C1_Witness ==
    /\ Len(all_lowest_z) = 1
    /\ Len(all_chi2[1]) = 3
    /\ all_chi2[1][2] = all_chi2[1][3]
    /\ all_chi2[1][1] > all_chi2[1][2]
    /\ all_lowest_z[1] = z[2]

\* the distance of C2: detected and expected peaks paired in ascending order
RECURSIVE C2_PairedDistance(_)
C2_PairedDistance(n) ==
    IF n = 0 THEN 0
    ELSE Abs(spec_peaks[n] - exp_peak[n]) + C2_PairedDistance(n - 1)

C2_Triggered ==
    LET pairs == IF Len(spec_peaks) <= Len(exp_peak) THEN Len(spec_peaks) ELSE Len(exp_peak)
    IN  \/ C2_PairedDistance(pairs) > 3 * Len(spec_peaks)
        \/ Len(spec_peaks) < 2

\* C2 (Spec): after a fit that converged, the chi-squared appended is 1.2 times the
\* fitted one if the total peak distance exceeds 3 times the number of detected
\* peaks or fewer than 2 peaks were detected, and the fitted one otherwise.
C2_PenaltyRule ==
    (pc = "scan" /\ k > 1 /\ fit_ok) =>
        /\ chi2_array[k - 1] = chi2
        /\ C2_Triggered => 5 * chi2 = 6 * chi2_fit
        /\ ~C2_Triggered => chi2 = chi2_fit

\* two detected peaks at total distance 6 = 3*2 from the expected ones: no penalty
C2_Witness ==
    /\ pc = "scan" /\ k > 1 /\ fit_ok
    /\ Len(spec_peaks) = 2
    /\ Len(exp_peak) = 2
    /\ C2_PairedDistance(2) = 6
    /\ chi2 = chi2_fit
    /\ chi2 > 0

\* C3 (Spec): no call of zfind ends in an error raised on a fit that did not converge.
C3_ConvergenceFailureNeverFatal ==
    ~(pc = "raised" /\ error = "ValueError" /\ ~fit_ok)

\* C4 (SpecRun): a recorded point that is not the first of its call is red if its
\* minimum chi-squared is at most the minimum of the first point of the same call,
\* gold if it is above it by at most 5%, green otherwise; the first point is
\* recorded before it.
C4_Categories ==
    \A i \in 1..Len(plot_colours) :
        IF all_flux[i].point = 1 THEN plot_colours[i] = "black"
        ELSE \E o \in 1..(i - 1) :
                /\ all_flux[o].call = all_flux[i].call
                /\ all_flux[o].point = 1
                /\ LET r == min(all_chi2[o])
                       m == min(all_chi2[i])
                   IN  /\ m <= r => plot_colours[i] = "red"
                       /\ (r < m /\ 100 * m <= 105 * r) => plot_colours[i] = "gold"
                       /\ 100 * m > 105 * r => plot_colours[i] = "green"

\* a point exactly 5% above the first point of its call, recorded as gold
C4_Witness ==
    /\ Len(plot_colours) >= 2
    /\ all_flux[1].point = 1 /\ all_flux[2].point = 2
    /\ 100 * min(all_chi2[2]) = 105 * min(all_chi2[1])
    /\ plot_colours[2] = "gold"

\* C5 (Spec): the chi-squared sequence and the fit-parameter sequence recorded for a
\* point have one entry per candidate of the grid, entry j belonging to z[j].
C5_SequencesAlignedWithGrid ==
    \A i \in 1..Len(all_chi2) :
        /\ Len(all_chi2[i]) = Len(z)
        /\ Len(all_params[i]) = Len(z)
        /\ \A j \in 1..Len(z) : all_params[i][j].x0 = location(args[1], z[j])

\* C6 (SpecRun): when zfind returns, the returned list and every aggregate collection
\* have one entry per point of coordinates, entry i measured at coordinates[i] in
\* this call.
C6_CollectionsMatchCoordinates ==
    pc = "returned" =>
        /\ Len(returned) = Len(coordinates)
        /\ Len(all_lowest_z) = Len(coordinates)
        /\ Len(all_flux) = Len(coordinates)
        /\ Len(all_chi2) = Len(coordinates)
        /\ Len(all_params) = Len(coordinates)
        /\ Len(all_snrs) = Len(coordinates)
        /\ Len(all_scales) = Len(coordinates)
        /\ Len(plot_colours) = Len(coordinates)
        /\ \A i \in 1..Len(all_flux) : all_flux[i] = fits_flux(calls, i)

\* C7 (SpecFill): while zfind scans the grid of a point, no uncertainty is zero.
C7_NoZeroUncertainty ==
    pc = "scan" => \A i \in 1..Len(uncert) : uncert[i] # 0

\* a chi-squared was computed for a spectrum whose uncertainties had zeros in the
\* first channel, in a run of three channels and isolated
C7_Witness ==
    /\ pc = "scan" /\ k > 1 /\ fit_ok
    /\ uncert_in[1] = 0 /\ uncert_in[2] = 0 /\ uncert_in[3] = 0
    /\ uncert_in[4] # 0 /\ uncert_in[5] = 0 /\ uncert_in[6] # 0

\* C8 as claimed (SpecAZ): once average_zeroes has ended, every zero with two
\* neighbours is the mean of the input values of its neighbours, every non-zero entry
\* and the length are unchanged.
C8_MeanOfInputNeighbours ==
    pc # "average_zeroes" =>
        /\ Len(uncert) = Len(uncert_in)
        /\ \A i \in 1..Len(uncert_in) : uncert_in[i] # 0 => uncert[i] = uncert_in[i]
        /\ \A i \in 2..(Len(uncert_in) - 1) :
              uncert_in[i] = 0 => 2 * uncert[i] = uncert_in[i - 1] + uncert_in[i + 1]

\* C8 as amended (SpecAZ): once average_zeroes has ended, every zero with two
\* neighbours is the mean of the value its left neighbour has then (the filled value
\* if that neighbour was a zero) and the input value of its right neighbour, every
\* non-zero entry and the length are unchanged.
C8_MeanOfCurrentNeighbours ==
    pc # "average_zeroes" =>
        /\ Len(uncert) = Len(uncert_in)
        /\ \A i \in 1..Len(uncert_in) : uncert_in[i] # 0 => uncert[i] = uncert_in[i]
        /\ \A i \in 2..(Len(uncert_in) - 1) :
              uncert_in[i] = 0 => 2 * uncert[i] = uncert[i - 1] + uncert_in[i + 1]

\* [2, 0, 0, 4] in units of Unit/2 has become [2, 1, 2.5, 4]
C8_Witness ==
    /\ pc = "filled"
    /\ uncert_in = <<Unit(MaxLen), 0, 0, 2 * Unit(MaxLen)>>
    /\ 2 * uncert[2] = Unit(MaxLen)
    /\ 4 * uncert[3] = 5 * Unit(MaxLen)

\* C9 (SpecSample): for num_points >= 1 the returned list has num_points points and
\* its first point is the centre.
C9_LengthAndOrigin ==
    (pc = "sampled" /\ num_points >= 1) =>
        /\ Len(points) = num_points
        /\ points[1] = centre_coords

\* three points returned around the centre [3, 4], the last one drawn off-centre
C9_Witness ==
    /\ pc = "sampled"
    /\ num_points = 3
    /\ centre_coords = <<3, 4>>
    /\ Len(points) = 3
    /\ points[3] # centre_coords

\* C10 (SpecSample): every two points of the returned list are at distance
\* >= minimum_spread_distance.
C10_PairwiseSeparation ==
    pc = "sampled" =>
        \A i \in 1..Len(points) : \A j \in (i + 1)..Len(points) :
            sq_dist(points[i], points[j]) >= minimum_spread_distance * minimum_spread_distance

\* C11 (SpecSample): a call of spaced_circle_points is never left with redraws
\* only: while it runs it can place a point, return, or stop with an error, so that
\* it ends also when the separation cannot be met.
C11_SamplerCanEnd ==
    pc = "sampling" => ENABLED (NextSample /\ (remaining' < remaining \/ pc' # "sampling"))

\* C12 (Spec): the grid zfind builds starts at z_start, rises by the constant step
\* dz, ends at z_end and holds no value greater than z_end, and it stays the grid of
\* the whole call.
C12_GridEndsAtZEnd ==
    pc \in {"point", "scan", "finished", "returned"} =>
        /\ Len(z) >= 1
        /\ z[1] = args[2]
        /\ \A i \in 1..(Len(z) - 1) : z[i + 1] - z[i] = args[3]
        /\ z[Len(z)] = args[4]
        /\ \A i \in 1..Len(z) : z[i] <= args[4]

\* C13 (SpecGauss): every evaluation of gaussf the fit makes, at every candidate of
\* every point, has n = round(z_end - z_start) and x0 = the location of the
\* candidate.  For n <= 1 it adds no term and is the plain 0; otherwise it has, at
\* every abscissa x of the axis, exactly n-1 terms, the i-th of amplitude a and of
\* argument (x - i*x0)/s, so centred at i*x0.  With a = 0 every term is 0.
C13_SumOfHarmonics ==
    \A e \in 1..Len(gauss) :
        LET g == gauss[e]
        IN  /\ g.n = round_half(args[4] - args[2])
            /\ g.x0 = location(args[1], z[g.candidate])
            /\ g.n <= 1 => (g.ndim = 0 /\ g.y = <<<<>>>>)
            /\ g.n > 1 =>
                  /\ g.ndim = 1
                  /\ Len(g.y) = Len(x_axis_flux)
                  /\ \A c \in 1..Len(g.y) :
                        /\ Len(g.y[c]) = g.n - 1
                        /\ \A i \in 1..Len(g.y[c]) :
                              LET x == x_axis_flux[c]
                                  t == g.y[c][i].t
                              IN  /\ g.y[c][i].a = g.a
                                  /\ t[2] # 0
                                  /\ t[1] * (x[2] * g.x0[2] * g.s[1])
                                        = t[2] * ((x[1] * g.x0[2] - i * g.x0[1] * x[2]) * g.s[2])
            /\ g.a = 0 => \A c \in 1..Len(g.y) : \A i \in 1..Len(g.y[c]) : g.y[c][i].a = 0

\* at the third candidate (z = 4, x0 = 23 GHz) of the second point, n = 3: at the
\* first channel, 23 GHz, there are two terms, the first with argument 0 (its centre)
\* and the second, centred at 46 GHz, with another one
C13_Witness ==
    /\ gauss # <<>>
    /\ gauss[1].point = 2
    /\ gauss[1].candidate = 3
    /\ gauss[1].n = 3
    /\ gauss[1].a = 2
    /\ gauss[1].x0 = <<230, 10>>
    /\ gauss[1].ndim = 1
    /\ Len(gauss[1].y[1]) = 2
    /\ gauss[1].y[1][1].t[1] = 0
    /\ gauss[1].y[1][2].t[1] # 0

\* on the grid from 0 to 0.5, n = 0: the evaluation is the plain 0
C13_WitnessScalar ==
    /\ gauss # <<>>
    /\ gauss[1].n = 0
    /\ gauss[1].ndim = 0

\* C14 (Spec): for a point with at least 2 detected peaks the chi2 of a candidate
\* is multiplied by 1.2 exactly when some detected peak lies more than 4 channels
\* from the expected peak it is paired with.
C14_PerPeakTolerance ==
    (pc = "scan" /\ k > 1 /\ fit_ok /\ Len(spec_peaks) >= 2) =>
        ((5 * chi2 = 6 * chi2_fit) <=>
            \E i \in 1..Len(spec_peaks) :
                i <= Len(exp_peak) /\ Abs(spec_peaks[i] - exp_peak[i]) > 4)

\* C15 (Spec): a fit that fails at a candidate that is not the first records the
\* largest chi2 recorded so far for the point, leaves the earlier values and the
\* parameters as they are, and the scan goes on with the next candidate.
C15_FailedFitSubstitutesMaximum ==
    [][(pc = "scan" /\ k <= Len(z) /\ chi2_array # <<>> /\ ~fit_ok')
          => /\ Len(chi2_array') = Len(chi2_array) + 1
             /\ SubSeq(chi2_array', 1, Len(chi2_array)) = chi2_array
             /\ \A j \in 1..Len(chi2_array) : chi2_array'[Len(chi2_array')] >= chi2_array[j]
             /\ \E j \in 1..Len(chi2_array) : chi2_array'[Len(chi2_array')] = chi2_array[j]
             /\ param_array' = param_array
             /\ error' = "none"
             /\ pc' = "scan"
             /\ k' = k + 1]_vars

\* the fit of the third candidate has failed after a penalised 126 and a plain 100:
\* the 126 of the first candidate, not the 100 recorded last, stands for the third
C15_Witness ==
    /\ pc = "scan"
    /\ k = 4
    /\ ~fit_ok
    /\ Len(param_array) = 2
    /\ chi2_array = <<126, 100, 126>>

\* C16 (SpecFill): a zero in the first channel is replaced by the mean of the last
\* and the second entry, whereas a zero in the last channel, and only that, makes
\* average_zeroes and with it zfind raise IndexError, the zeros before it filled
\* already.  (zfind scales a filled spectrum by 1000; a raise comes before that.)
C16_BoundaryZeros ==
    uncert_in # <<>> =>
        LET n == Len(uncert_in)
            raised == pc = "raised" /\ error = "IndexError"
            scale == IF raised THEN 1 ELSE 1000
        IN  /\ (uncert_in[n] = 0) <=> raised
            /\ uncert_in[1] = 0 => 2 * uncert[1] = scale * (uncert_in[n] + uncert_in[2])
            /\ raised =>
                  /\ uncert[n] = 0
                  /\ all_chi2 = <<>>
                  /\ \A i \in 1..n : uncert_in[i] # 0 => uncert[i] = uncert_in[i]
                  /\ \A i \in 2..(n - 1) :
                        uncert_in[i] = 0 => 2 * uncert[i] = uncert[i - 1] + uncert_in[i + 1]

\* [0, 1, 0, 1, 1, 0] in units of Unit: zfind has raised IndexError at the last
\* channel with the data left as [0.5, 1, 1, 1, 1, 0]
C16_Witness ==
    /\ pc = "raised"
    /\ error = "IndexError"
    /\ uncert_in = [i \in 1..NumChannels |-> IF i \in {1, 3, NumChannels} THEN 0
                                             ELSE Unit(NumChannels)]
    /\ 2 * uncert[1] = Unit(NumChannels)
    /\ uncert[3] = Unit(NumChannels)
    /\ uncert[NumChannels] = 0

\* [0, 1, 1, 1, 1, 2] in units of Unit: the first channel has become (2 + 1)/2
C16_WitnessWrap ==
    /\ pc = "scan"
    /\ uncert_in = [i \in 1..NumChannels |-> IF i = 1 THEN 0
                                             ELSE IF i = NumChannels THEN 2 * Unit(NumChannels)
                                             ELSE Unit(NumChannels)]
    /\ 2 * uncert[1] = 1000 * 3 * Unit(NumChannels)

============================================================================
